---- MODULE Spec2Model ----
(***************************************************************************)
(* foldersync: one-way synchronisation of a local directory tree to a      *)
(* Destination (sync.Sync, syncFiles, deleteExtras, validateSrc) and the   *)
(* key mapping of S3Destination (fullKey, relKey).                         *)
(*                                                                         *)
(* Time is counted in ticks; TicksPerSec ticks make one second, so that    *)
(* time.Time.Truncate(time.Second) has something to cut off.               *)
(***************************************************************************)
EXTENDS Integers, Sequences, FiniteSets, TLC

VARIABLES
    srcKind,    \* what opts.Src names: "missing", "file" or "dir"
    fs,         \* the tree below opts.Src: path -> [kind, size, modTime]
    objects,    \* the Destination: key -> [exists, size, modTime]
    dryRun,     \* opts.DryRun of the current run
    delete,     \* opts.Delete of the current run
    pc,         \* position of Sync: "idle", "walk", "mirror", "done"
    err,        \* the error Sync returns ("" is nil)
    walkQueue,  \* entries WalkDir has read and not yet visited
    keys,       \* keys of List that deleteExtras has not yet checked
    trace,      \* events of the current run, in order
    visit,      \* what the last syncFiles callback saw and decided
    check,      \* what the last deleteExtras iteration saw and decided
    start,      \* the Destination's objects when the current run began
    run,        \* number of Sync calls started
    prev,       \* summary of the previous run
    touched,    \* another process changed the tree since the first run began
    cancelAt,   \* Len(trace) when the caller cancelled ctx; -1 while ctx is live
    prefix,     \* S3Destination.prefix
    rel,        \* a relative key handed to the key mapper
    full,       \* fullKey(rel) once computed
    back,       \* relKey(full) once computed
    again,      \* fullKey(back) once computed
    from,       \* where the round trip began: "rel" (a key to upload) or "list"
    kpc         \* position of the key mapper round trip: "rel", "full", "back", "again"

syncVars == <<srcKind, fs, objects, dryRun, delete, pc, err, walkQueue, keys,
              trace, visit, check, start, run, prev, touched, cancelAt>>
keyVars  == <<prefix, rel, full, back, again, from, kpc>>
vars     == <<syncVars, keyVars>>

----
\* Bounds of the model.
MaxSize     == 1    \* file sizes are 0..MaxSize bytes
MaxTick     == 2    \* modification times are 0..MaxTick ticks
MaxRuns     == 2    \* Sync is called at most this many times
MaxObjects  == 1    \* objects the Destination holds before the first run
MaxPrefixLen == 2   \* length of S3Destination.prefix
MaxKeyLen    == 3   \* length of a relative key
MaxFullLen   == 4   \* length of a key the backend lists

\* time.Second in ticks (1e9 ns in the source).
TicksPerSec == 2

----
\* The source tree.  WalkDir visits a directory's entries in lexical order.
Root      == "."
Paths     == {"a", "a/x", "b"}
WalkOrder == <<"a", "a/x", "b">>
Parent(p) == IF p = "a/x" THEN "a" ELSE Root

Sizes == 0..MaxSize
Times == 0..MaxTick

\* An entry of the tree: kind "none" (no such path), "file" (regular file),
\* "dir", or "other" (neither: a named pipe, a socket, a device, ...).
NoEntry == [kind |-> "none", size |-> 0, modTime |-> 0]
DirEntry == [kind |-> "dir", size |-> 0, modTime |-> 0]
OtherEntry == [kind |-> "other", size |-> 0, modTime |-> 0]
Entries == {NoEntry, DirEntry, OtherEntry}
             \cup [kind : {"file"}, size : Sizes, modTime : Times]

\* *ObjectMeta; NoMeta is the nil pointer Stat returns for an absent object.
NoMeta      == [exists |-> FALSE, size |-> 0, modTime |-> 0]
ObjectMetas == [exists : {TRUE}, size : Sizes, modTime : Times]

\* A child exists only below a directory.
WellFormed(tree) ==
    \A p \in Paths :
        (tree[p].kind # "none" /\ Parent(p) # Root) => tree[Parent(p)].kind = "dir"

\* time.Time.Truncate(time.Second), and equally time.Unix(t.Unix(), 0).
Truncate(t) == t - (t % TicksPerSec)

\* The event log of one run.
Event(op, key, res) == [op |-> op, key |-> key, res |-> res]
IsRecord(e) == e.op \in {"upload", "delete"}
Records(tr) == SelectSeq(tr, IsRecord)
Calls(tr, op) == SelectSeq(tr, LAMBDA e : e.op = op)
StoreCalls(tr) == SelectSeq(tr, LAMBDA e : e.op \in {"Stat", "Put", "List", "Delete"})
KeysOf(tr) == {tr[i].key : i \in 1..Len(tr)}

----
\* Put as it would be if it kept the modification time as handed over.
PutKeepsSubSecond(size, modTime) == [exists |-> TRUE, size |-> size, modTime |-> modTime]

\* mockDest.Put / S3Destination.Put: the object's metadata after an upload.
\* Both keep the size and the modification time cut to whole seconds.
Put(size, modTime) == [exists |-> TRUE, size |-> size, modTime |-> Truncate(modTime)]

\* The test of syncFiles for "already up to date".
UpToDate(meta, info) ==
    /\ meta.exists
    /\ meta.modTime = Truncate(info.modTime)
    /\ meta.size = info.size

\* validateSrc as it would be without the IsDir test.
validateSrcExistsOnly(kind) ==
    IF kind = "missing" THEN "source: no such file or directory" ELSE ""

\* validateSrc: "" for nil.
validateSrc(kind) ==
    IF kind = "missing" THEN "source: no such file or directory"
    ELSE IF kind # "dir" THEN "source is not a directory"
    ELSE ""

\* os.ReadDir as WalkDir uses it: the names below dir, sorted, each with the
\* type bits read from the directory.
ReadDir(dir) ==
    LET names == SelectSeq(WalkOrder, LAMBDA p : Parent(p) = dir /\ fs[p].kind # "none")
    IN  [i \in 1..Len(names) |->
            [path |-> names[i], isDir |-> (fs[names[i]].kind = "dir")]]

\* os.Stat(filepath.Join(opts.Src, filepath.FromSlash(key))): "exists",
\* "notexist" (ENOENT), or "error" for a failure that is not ENOENT: the
\* one the tree itself can cause is ENOTDIR, when a component of the path
\* is not a directory.
osStat(key) ==
    IF Parent(key) # Root /\ fs[Parent(key)].kind \in {"file", "other"} THEN "error"
    ELSE IF Parent(key) # Root /\ fs[Parent(key)].kind = "none" THEN "notexist"
    ELSE IF fs[key].kind = "none" THEN "notexist"
    ELSE "exists"

\* os.IsNotExist as it would be if the test were for success.
IsNotExistInverted(res) == res = "exists"

\* os.IsNotExist applied to the outcome of os.Stat.
IsNotExist(res) == res = "notexist"

\* The callback as it would be if DryRun were not tested before Put.
CallbackIgnoresDryRun(key, info, meta, dry, fault) ==
    LET stat   == Event("Stat", key, IF fault = "stat" THEN "err" ELSE "ok")
        rec    == Event("upload", key, "")
        open   == Event("Open", key, IF fault = "open" THEN "err" ELSE "ok")
        put    == Event("Put", key, IF fault = "put" THEN "err" ELSE "ok")
        close  == Event("Close", key, "ok")
    IN  IF info.kind = "none"
          THEN [events |-> <<>>, err |-> "info", stored |-> FALSE]
        ELSE IF fault = "stat"
          THEN [events |-> <<stat>>, err |-> "stat", stored |-> FALSE]
        ELSE IF UpToDate(meta, info)
          THEN [events |-> <<stat>>, err |-> "", stored |-> FALSE]
        ELSE IF fault = "open"
          THEN [events |-> <<stat, rec, open>>, err |-> "open", stored |-> FALSE]
        ELSE IF fault = "put"
          THEN [events |-> <<stat, rec, open, put, close>>, err |-> "put", stored |-> FALSE]
        ELSE [events |-> <<stat, rec, open, put, close>>, err |-> "", stored |-> TRUE]

\* The callback as it would be if the record were printed after Put.
CallbackRecordsAfterPut(key, info, meta, dry, fault) ==
    LET stat   == Event("Stat", key, IF fault = "stat" THEN "err" ELSE "ok")
        rec    == Event("upload", key, "")
        open   == Event("Open", key, IF fault = "open" THEN "err" ELSE "ok")
        put    == Event("Put", key, IF fault = "put" THEN "err" ELSE "ok")
        close  == Event("Close", key, "ok")
    IN  IF info.kind = "none"
          THEN [events |-> <<>>, err |-> "info", stored |-> FALSE]
        ELSE IF fault = "stat"
          THEN [events |-> <<stat>>, err |-> "stat", stored |-> FALSE]
        ELSE IF UpToDate(meta, info)
          THEN [events |-> <<stat>>, err |-> "", stored |-> FALSE]
        ELSE IF dry
          THEN [events |-> <<stat, rec>>, err |-> "", stored |-> FALSE]
        ELSE IF fault = "open"
          THEN [events |-> <<stat, open>>, err |-> "open", stored |-> FALSE]
        ELSE IF fault = "put"
          THEN [events |-> <<stat, open, put, close>>, err |-> "put", stored |-> FALSE]
        ELSE [events |-> <<stat, open, put, close, rec>>, err |-> "", stored |-> TRUE]

\* The callback as it would be if the file were closed only after a Put
\* that succeeded.
CallbackLeaksOnPutError(key, info, meta, dry, fault) ==
    LET stat   == Event("Stat", key, IF fault = "stat" THEN "err" ELSE "ok")
        rec    == Event("upload", key, "")
        open   == Event("Open", key, IF fault = "open" THEN "err" ELSE "ok")
        put    == Event("Put", key, IF fault = "put" THEN "err" ELSE "ok")
        close  == Event("Close", key, "ok")
    IN  IF info.kind = "none"
          THEN [events |-> <<>>, err |-> "info", stored |-> FALSE]
        ELSE IF fault = "stat"
          THEN [events |-> <<stat>>, err |-> "stat", stored |-> FALSE]
        ELSE IF UpToDate(meta, info)
          THEN [events |-> <<stat>>, err |-> "", stored |-> FALSE]
        ELSE IF dry
          THEN [events |-> <<stat, rec>>, err |-> "", stored |-> FALSE]
        ELSE IF fault = "open"
          THEN [events |-> <<stat, rec, open>>, err |-> "open", stored |-> FALSE]
        ELSE IF fault = "put"
          THEN [events |-> <<stat, rec, open, put>>, err |-> "put", stored |-> FALSE]
        ELSE [events |-> <<stat, rec, open, put, close>>, err |-> "", stored |-> TRUE]

\* The callback as it would be if a failed Stat were taken for "absent".
CallbackStatErrorIsAbsent(key, info, meta, dry, fault) ==
    LET stat   == Event("Stat", key, IF fault = "stat" THEN "err" ELSE "ok")
        rec    == Event("upload", key, "")
        open   == Event("Open", key, "ok")
        put    == Event("Put", key, IF fault = "put" THEN "err" ELSE "ok")
        close  == Event("Close", key, "ok")
    IN  IF info.kind = "none"
          THEN [events |-> <<>>, err |-> "info", stored |-> FALSE]
        ELSE IF fault # "stat" /\ UpToDate(meta, info)
          THEN [events |-> <<stat>>, err |-> "", stored |-> FALSE]
        ELSE IF dry
          THEN [events |-> <<stat, rec>>, err |-> "", stored |-> FALSE]
        ELSE IF fault = "put"
          THEN [events |-> <<stat, rec, open, put, close>>, err |-> "put", stored |-> FALSE]
        ELSE [events |-> <<stat, rec, open, put, close>>, err |-> "", stored |-> TRUE]

\* One call of the WalkDir callback of syncFiles for a non-directory entry:
\* the events it produces, the error it returns and whether Put stored the
\* object.  fault names the call that fails in this step, if it is reached.
Callback(key, info, meta, dry, fault) ==
    LET stat   == Event("Stat", key, IF fault = "stat" THEN "err" ELSE "ok")
        rec    == Event("upload", key, "")
        open   == Event("Open", key, IF fault = "open" THEN "err" ELSE "ok")
        put    == Event("Put", key, IF fault = "put" THEN "err" ELSE "ok")
        close  == Event("Close", key, "ok")
    IN  IF info.kind = "none"
          THEN [events |-> <<>>, err |-> "info", stored |-> FALSE]
        ELSE IF fault = "stat"
          THEN [events |-> <<stat>>, err |-> "stat", stored |-> FALSE]
        ELSE IF UpToDate(meta, info)
          THEN [events |-> <<stat>>, err |-> "", stored |-> FALSE]
        ELSE IF dry
          THEN [events |-> <<stat, rec>>, err |-> "", stored |-> FALSE]
        ELSE IF fault = "open"
          THEN [events |-> <<stat, rec, open>>, err |-> "open", stored |-> FALSE]
        ELSE IF fault = "put"
          THEN [events |-> <<stat, rec, open, put, close>>, err |-> "put", stored |-> FALSE]
        ELSE [events |-> <<stat, rec, open, put, close>>, err |-> "", stored |-> TRUE]

\* The iteration as it would be if the local check were left out.
IterationDeletesEveryKey(key, res, dry, fault) ==
    LET chk == Event("LocalCheck", key, res)
        rec == Event("delete", key, "")
        del == Event("Delete", key, IF fault = "delete" THEN "err" ELSE "ok")
    IN  IF dry
          THEN [events |-> <<chk, rec>>, err |-> "", removed |-> FALSE]
        ELSE IF fault = "delete"
          THEN [events |-> <<chk, rec, del>>, err |-> "delete", removed |-> FALSE]
        ELSE [events |-> <<chk, rec, del>>, err |-> "", removed |-> TRUE]

\* The iteration as it would be if the record were printed only with the
\* Delete call.
IterationRecordsOnlyLive(key, res, dry, fault) ==
    LET chk == Event("LocalCheck", key, res)
        rec == Event("delete", key, "")
        del == Event("Delete", key, IF fault = "delete" THEN "err" ELSE "ok")
    IN  IF ~IsNotExist(res) \/ dry
          THEN [events |-> <<chk>>, err |-> "", removed |-> FALSE]
        ELSE IF fault = "delete"
          THEN [events |-> <<chk, rec, del>>, err |-> "delete", removed |-> FALSE]
        ELSE [events |-> <<chk, rec, del>>, err |-> "", removed |-> TRUE]

\* One iteration of the loop of deleteExtras.
Iteration(key, res, dry, fault) ==
    LET chk == Event("LocalCheck", key, res)
        rec == Event("delete", key, "")
        del == Event("Delete", key, IF fault = "delete" THEN "err" ELSE "ok")
    IN  IF ~IsNotExist(res)
          THEN [events |-> <<chk>>, err |-> "", removed |-> FALSE]
        ELSE IF dry
          THEN [events |-> <<chk, rec>>, err |-> "", removed |-> FALSE]
        ELSE IF fault = "delete"
          THEN [events |-> <<chk, rec, del>>, err |-> "delete", removed |-> FALSE]
        ELSE [events |-> <<chk, rec, del>>, err |-> "", removed |-> TRUE]

NoVisit == [path |-> "", kind |-> "none", size |-> 0, modTime |-> 0,
            meta |-> NoMeta, statted |-> FALSE, upload |-> FALSE, put |-> FALSE]
NoCheck == [key |-> "", present |-> FALSE, res |-> "", record |-> FALSE, called |-> FALSE]
NoPrev  == [ran |-> FALSE, dryRun |-> FALSE, delete |-> FALSE, err |-> "",
            log |-> <<>>, start |-> [p \in Paths |-> NoMeta]]

\* All orders in which List may return the keys of ks.
Orders(ks) ==
    {s \in [1..Cardinality(ks) -> ks] : \A i, j \in 1..Cardinality(ks) : i # j => s[i] # s[j]}

----
\* Keys of S3Destination are strings; a string is a sequence of characters.
Chars == {"/", "k"}
Slash == <<"/">>
Strings(n) == UNION {[1..m -> Chars] : m \in 0..n}

HasPrefix(str, pre) == Len(pre) <= Len(str) /\ SubSeq(str, 1, Len(pre)) = pre
HasSuffix(str, suf) ==
    Len(suf) <= Len(str) /\ SubSeq(str, Len(str) - Len(suf) + 1, Len(str)) = suf
\* strings.TrimPrefix, strings.TrimSuffix: cut one occurrence, if there.
TrimPrefix(str, pre) ==
    IF HasPrefix(str, pre) THEN SubSeq(str, Len(pre) + 1, Len(str)) ELSE str
TrimSuffix(str, suf) ==
    IF HasSuffix(str, suf) THEN SubSeq(str, 1, Len(str) - Len(suf)) ELSE str

\* fullKey as it would be if the prefix were joined as configured.
fullKeyKeepsTrailingSlash(pre, r) ==
    LET r1 == TrimPrefix(r, Slash)
    IN  IF pre = <<>> THEN r1 ELSE pre \o Slash \o r1

\* S3Destination.fullKey.
fullKey(pre, r) ==
    LET r1 == TrimPrefix(r, Slash)
    IN  IF pre = <<>> THEN r1 ELSE TrimSuffix(pre, Slash) \o Slash \o r1

\* relKey as it would be if it returned the key as listed.
relKeyKeepsPrefix(pre, f) == f

\* relKey as it would be if it cut the prefix as configured.
relKeyCutsRawPrefix(pre, f) ==
    IF pre = <<>> THEN f ELSE TrimPrefix(f, pre)

\* S3Destination.relKey.
relKey(pre, f) ==
    IF pre = <<>> THEN f ELSE TrimPrefix(f, TrimSuffix(pre, Slash) \o Slash)

\* The Prefix that S3Destination.List asks the backend for.
listPrefix(pre) ==
    IF pre = <<>> THEN pre ELSE TrimSuffix(pre, Slash) \o Slash

----
\* The state before the first call of Sync.
InitKeys ==
    /\ prefix = <<>>
    /\ rel = <<>>
    /\ full = <<>>
    /\ back = <<>>
    /\ again = <<>>
    /\ from = "rel"
    /\ kpc = "rel"

Init ==
    /\ srcKind \in {"missing", "file", "dir"}
    /\ fs \in [Paths -> Entries]
    /\ WellFormed(fs)
    /\ fs["a/x"].kind # "dir"
    /\ srcKind # "dir" => fs = [p \in Paths |-> NoEntry]
    /\ objects \in [Paths -> ObjectMetas \cup {NoMeta}]
    /\ Cardinality({k \in Paths : objects[k].exists}) <= MaxObjects
    /\ dryRun = FALSE
    /\ delete = FALSE
    /\ pc = "idle"
    /\ err = ""
    /\ walkQueue = <<>>
    /\ keys = <<>>
    /\ trace = <<>>
    /\ visit = NoVisit
    /\ check = NoCheck
    /\ start = objects
    /\ run = 0
    /\ prev = NoPrev
    /\ touched = FALSE
    /\ cancelAt = -1
    /\ InitKeys

\* Sync is called: validateSrc, then the walk of syncFiles begins.  The
\* command is run again only after a run that succeeded, with the same
\* -delete and with or without -dry-run.
Sync ==
    /\ pc \in {"idle", "done"}
    /\ run < MaxRuns
    /\ err = ""
    /\ \E d \in BOOLEAN, m \in BOOLEAN :
        /\ run > 0 => m = delete
        /\ dryRun' = d
        /\ delete' = m
    /\ run' = run + 1
    /\ prev' = IF run = 0 THEN NoPrev
               ELSE [ran |-> TRUE, dryRun |-> dryRun, delete |-> delete, err |-> err,
                     log |-> Records(trace), start |-> start]
    /\ start' = objects
    /\ trace' = <<>>
    /\ visit' = NoVisit
    /\ check' = NoCheck
    /\ keys' = <<>>
    /\ err' = validateSrc(srcKind)
    /\ IF validateSrc(srcKind) # ""
         THEN pc' = "done" /\ walkQueue' = <<>>
         ELSE pc' = "walk" /\ walkQueue' = <<[path |-> Root, isDir |-> TRUE]>>
    /\ cancelAt' = -1
    /\ UNCHANGED <<srcKind, fs, objects, touched, keyVars>>

\* WalkDir reaches a directory: the callback returns nil for it, WalkDir
\* reads the directory and, if that fails, hands the error to the callback,
\* which returns it.
syncFilesDir ==
    /\ pc = "walk"
    /\ walkQueue # <<>>
    /\ Head(walkQueue).isDir
    /\ \E fault \in {"none", "readdir"} :
        IF fault = "readdir"
          THEN /\ err' = "walk"
               /\ pc' = "done"
               /\ walkQueue' = <<>>
          ELSE /\ walkQueue' = ReadDir(Head(walkQueue).path) \o Tail(walkQueue)
               /\ UNCHANGED <<err, pc>>
    /\ UNCHANGED <<srcKind, fs, objects, dryRun, delete, keys, trace, visit, check,
                   start, run, prev, touched, cancelAt, keyVars>>

\* WalkDir reaches an entry that is not a directory: the callback of
\* syncFiles runs for it, Stat to Put.
syncFilesFile ==
    /\ pc = "walk"
    /\ walkQueue # <<>>
    /\ ~Head(walkQueue).isDir
    /\ \E fault \in {"none", "stat", "open", "put"} :
        LET key  == Head(walkQueue).path
            info == fs[key]
            meta == objects[key]
            r    == Callback(key, info, meta, dryRun, fault)
        IN  /\ trace' = trace \o r.events
            /\ visit' = [path |-> key, kind |-> info.kind, size |-> info.size,
                         modTime |-> info.modTime, meta |-> meta,
                         statted |-> (Calls(r.events, "Stat") # <<>>),
                         upload |-> (Calls(r.events, "upload") # <<>>),
                         put |-> (Calls(r.events, "Put") # <<>>)]
            /\ objects' = IF r.stored
                            THEN [objects EXCEPT ![key] = Put(info.size, info.modTime)]
                            ELSE objects
            /\ err' = r.err
            /\ IF r.err # ""
                 THEN pc' = "done" /\ walkQueue' = <<>>
                 ELSE pc' = pc /\ walkQueue' = Tail(walkQueue)
    /\ UNCHANGED <<srcKind, fs, dryRun, delete, keys, check, start, run, prev,
                   touched, cancelAt, keyVars>>

\* WalkDir has returned nil: Sync returns, or calls deleteExtras, which
\* begins with List.
deleteExtras ==
    /\ pc = "walk"
    /\ walkQueue = <<>>
    /\ IF ~delete
         THEN /\ pc' = "done"
              /\ UNCHANGED <<keys, trace, err>>
         ELSE \E fault \in {"none", "list"} :
                IF fault = "list"
                  THEN /\ trace' = Append(trace, Event("List", "", "err"))
                       /\ err' = "list"
                       /\ pc' = "done"
                       /\ keys' = <<>>
                  ELSE \E order \in Orders({k \in Paths : objects[k].exists}) :
                         /\ trace' = Append(trace, Event("List", "", "ok"))
                         /\ keys' = order
                         /\ pc' = IF order = <<>> THEN "done" ELSE "mirror"
                         /\ err' = err
    /\ UNCHANGED <<srcKind, fs, objects, dryRun, delete, walkQueue, visit, check,
                   start, run, prev, touched, cancelAt, keyVars>>

\* The loop of deleteExtras handles the next key.
deleteExtrasKey ==
    /\ pc = "mirror"
    /\ keys # <<>>
    /\ \E fault \in {"none", "delete"} :
        LET key == Head(keys)
            res == osStat(key)
            r   == Iteration(key, res, dryRun, fault)
        IN  /\ trace' = trace \o r.events
            /\ check' = [key |-> key, present |-> (fs[key].kind # "none"), res |-> res,
                         record |-> (Calls(r.events, "delete") # <<>>),
                         called |-> (Calls(r.events, "Delete") # <<>>)]
            /\ objects' = IF r.removed THEN [objects EXCEPT ![key] = NoMeta] ELSE objects
            /\ err' = r.err
            /\ IF r.err # "" \/ Tail(keys) = <<>>
                 THEN pc' = "done" /\ keys' = <<>>
                 ELSE pc' = pc /\ keys' = Tail(keys)
    /\ UNCHANGED <<srcKind, fs, dryRun, delete, walkQueue, visit, start, run, prev,
                   touched, cancelAt, keyVars>>

\* Another process removes an entry of the tree while Sync runs.
LocalRemove ==
    /\ pc \in {"walk", "mirror"}
    /\ ~touched
    /\ \E p \in Paths :
        /\ fs[p].kind \in {"file", "other"}
        /\ fs' = [fs EXCEPT ![p] = NoEntry]
    /\ touched' = TRUE
    /\ UNCHANGED <<srcKind, objects, dryRun, delete, pc, err, walkQueue, keys, trace,
                   visit, check, start, run, prev, cancelAt, keyVars>>

Next ==
    \/ Sync
    \/ syncFilesDir
    \/ syncFilesFile
    \/ deleteExtras
    \/ deleteExtrasKey

\* Runs of Sync over a tree nobody else changes.
Spec == Init /\ [][Next]_vars

\* The caller cancels the ctx it handed to Sync while Sync runs.
Cancel ==
    /\ pc \in {"walk", "mirror"}
    /\ cancelAt = -1
    /\ cancelAt' = Len(trace)
    /\ UNCHANGED <<srcKind, fs, objects, dryRun, delete, pc, err, walkQueue, keys, trace,
                   visit, check, start, run, prev, touched, keyVars>>

NextCancel == Next \/ Cancel

\* Runs of Sync whose ctx the caller may cancel.
SpecCancel == Init /\ [][NextCancel]_vars

\* The key mapper alone: a prefix and a relative key are mapped forward
\* with fullKey and back with relKey.
InitSync ==
    /\ srcKind = "dir"
    /\ fs = [p \in Paths |-> NoEntry]
    /\ objects = [p \in Paths |-> NoMeta]
    /\ dryRun = FALSE
    /\ delete = FALSE
    /\ pc = "idle"
    /\ err = ""
    /\ walkQueue = <<>>
    /\ keys = <<>>
    /\ trace = <<>>
    /\ visit = NoVisit
    /\ check = NoCheck
    /\ start = objects
    /\ run = 0
    /\ prev = NoPrev
    /\ touched = FALSE
    /\ cancelAt = -1

\* The round trip begins either with a relative key handed to Put, Stat or
\* Delete, or with a key of the bucket that the backend returns for
\* List's Prefix.
InitMapper ==
    /\ InitSync
    /\ prefix \in Strings(MaxPrefixLen)
    /\ back = <<>>
    /\ again = <<>>
    /\ \/ /\ from = "rel"
          /\ rel \in Strings(MaxKeyLen)
          /\ full = <<>>
          /\ kpc = "rel"
       \/ /\ from = "list"
          /\ rel = <<>>
          /\ full \in Strings(MaxFullLen)
          /\ HasPrefix(full, listPrefix(prefix))
          /\ kpc = "full"

\* Put, Stat, Delete: the key sent to the backend is fullKey(rel).
MapForward ==
    /\ kpc = "rel"
    /\ full' = fullKey(prefix, rel)
    /\ kpc' = "full"
    /\ UNCHANGED <<syncVars, prefix, rel, back, again, from>>

\* List: the key handed to deleteExtras is relKey of the backend's key.
MapBack ==
    /\ kpc = "full"
    /\ back' = relKey(prefix, full)
    /\ kpc' = "back"
    /\ UNCHANGED <<syncVars, prefix, rel, full, again, from>>

\* Delete of a listed key: the key sent to the backend is fullKey of it.
MapAgain ==
    /\ kpc = "back"
    /\ again' = fullKey(prefix, back)
    /\ kpc' = "again"
    /\ UNCHANGED <<syncVars, prefix, rel, full, back, from>>

NextKeys ==
    \/ MapForward
    \/ MapBack
    \/ MapAgain

SpecKeys == InitMapper /\ [][NextKeys]_vars

\* Runs of Sync while another process may remove an entry.
NextRace ==
    \/ Next
    \/ LocalRemove

SpecRace == Init /\ [][NextRace]_vars

----
\* Every entry of the tree is a regular file or a directory.
OnlyFilesAndDirs == \A p \in Paths : fs[p].kind # "other"

\* C1: after a successful live run from an empty destination, a second live
\* run over the unchanged tree prints no upload record and calls Put never.
SecondLiveRunFromEmpty ==
    /\ run = 2
    /\ ~dryRun
    /\ prev.ran /\ ~prev.dryRun /\ prev.err = ""
    /\ \A k \in Paths : ~prev.start[k].exists
    /\ ~touched

Classified == visit.kind = "file" /\ visit.statted /\ err # "stat"

C2_SkipIffEqualTruncated ==
    Classified =>
        ((~visit.upload) <=>
            /\ visit.meta.exists
            /\ visit.meta.size = visit.size
            /\ Truncate(visit.meta.modTime) = Truncate(visit.modTime))

\* C3: a dry run calls neither Put nor Delete and leaves the destination as
\* it was; when it ends without error it has called Stat for every entry
\* the walk visited and List exactly when -delete is set.
C3_DryRunFrame ==
    (run > 0 /\ dryRun) =>
        /\ Calls(trace, "Put") = <<>>
        /\ Calls(trace, "Delete") = <<>>
        /\ objects = start
        /\ (pc = "done" /\ err = "" /\ ~touched) =>
              /\ KeysOf(Calls(trace, "Stat")) = {p \in Paths : fs[p].kind \in {"file", "other"}}
              /\ Len(Calls(trace, "List")) = (IF delete THEN 1 ELSE 0)

C3_Witness ==
    /\ run > 0 /\ dryRun /\ delete
    /\ pc = "done" /\ err = ""
    /\ Calls(trace, "upload") # <<>>
    /\ Calls(trace, "delete") # <<>>
    /\ \E k \in Paths : objects[k].exists

\* C4: a dry run and a live run from the same tree and the same destination
\* print the same records in the same order.  (Left aside are live runs in
\* which a read that the dry run makes as well has failed.)
DryThenLive ==
    /\ run = 2
    /\ pc = "done"
    /\ prev.ran /\ prev.dryRun /\ ~dryRun
    /\ prev.start = start
    /\ ~touched

ReadErrors == {"walk", "info", "stat", "list"}

Listed == KeysOf(Calls(trace, "LocalCheck"))

C5_MirrorDeletionExact ==
    (pc = "done" /\ err = "" /\ run > 0 /\ ~dryRun /\ delete /\ ~touched
        /\ OnlyFilesAndDirs) =>
        /\ KeysOf(Calls(trace, "Delete")) = {k \in Listed : fs[k].kind = "none"}
        /\ Len(Calls(trace, "Delete")) = Cardinality(KeysOf(Calls(trace, "Delete")))
        /\ \A k \in Listed : fs[k].kind # "none" => objects[k].exists

\* C6: when the source is missing or is not a directory, Sync returns an
\* error and calls nothing and prints nothing.
C6_FatalValidation ==
    (run > 0 /\ srcKind # "dir") =>
        /\ pc = "done"
        /\ err # ""
        /\ trace = <<>>
        /\ objects = start

C6_Witness ==
    /\ run > 0
    /\ srcKind = "file"
    /\ delete /\ ~dryRun
    /\ \E k \in Paths : objects[k].exists

\* C7: a failed call is the last store call of the run and is not followed
\* by any record; Sync then returns an error, and an error of the upload
\* phase keeps deleteExtras from being called.
IsStoreCall(e) == e.op \in {"Stat", "Put", "List", "Delete"}

C7_FirstErrorEndsRun ==
    /\ \A i \in 1..Len(trace) :
          trace[i].res = "err" =>
              /\ err # ""
              /\ \A j \in (i + 1)..Len(trace) :
                    ~IsStoreCall(trace[j]) /\ ~IsRecord(trace[j])
    /\ err # "" => (pc = "done" /\ walkQueue = <<>> /\ keys = <<>>)
    /\ err \in {"walk", "info", "stat", "open", "put"} => Calls(trace, "List") = <<>>

C7_Witness ==
    /\ err = "stat"
    /\ delete /\ ~dryRun
    /\ visit.path = "a"
    /\ fs["b"].kind = "file"
    /\ ~objects["b"].exists

\* C8: a local check that fails for another reason than "not found" ends
\* the run with an error.
C8_LocalCheckErrorFatal ==
    OnlyFilesAndDirs =>
        \A i \in 1..Len(trace) :
            (trace[i].op = "LocalCheck" /\ trace[i].res = "error") =>
                (i = Len(trace) /\ err # "" /\ pc = "done")

\* C9: Stat, upload records and Put are produced for regular files only.
C9_OnlyRegularFiles ==
    ~touched =>
        \A i \in 1..Len(trace) :
            trace[i].op \in {"Stat", "upload", "Open", "Put"} => fs[trace[i].key].kind = "file"

\* C10: for a relative key without a leading slash, relKey gives back what
\* fullKey was given, whatever the prefix.
C10_RelFullRel ==
    (from = "rel" /\ kpc = "back" /\ ~HasPrefix(rel, Slash)) => back = rel

C10_Witness ==
    /\ from = "rel"
    /\ kpc = "back"
    /\ ~HasPrefix(rel, Slash)
    /\ Len(rel) = MaxKeyLen
    /\ HasSuffix(prefix, Slash) /\ Len(prefix) > 1
    /\ full # rel

\* C11: for every full key that fullKey produces, fullKey after relKey gives
\* the same full key.
C11_FullRelFull ==
    (from = "rel" /\ kpc = "again") => again = full

TwoSlashes == <<"/", "/">>

\* C11 as amended: the same, for full keys that fullKey produces from a
\* relative key with at most one leading slash.
C11_FullRelFullOneSlash ==
    (from = "rel" /\ kpc = "again" /\ ~HasPrefix(rel, TwoSlashes)) => again = full

C11_Witness ==
    /\ from = "rel" /\ kpc = "again"
    /\ HasPrefix(rel, Slash) /\ ~HasPrefix(rel, TwoSlashes)
    /\ Len(rel) = MaxKeyLen
    /\ HasSuffix(prefix, Slash) /\ Len(prefix) > 1
    /\ back # rel

Mapped == from = "rel" /\ kpc # "rel"

\* C12: fullKey gives the relative key without leading slash when the prefix
\* is empty, and otherwise the prefix without trailing slash, one slash and
\* the relative key without leading slash.
C12_FullKeyNormalized ==
    Mapped =>
        LET P == TrimSuffix(prefix, Slash)
            R == TrimPrefix(rel, Slash)
        IN  /\ ~HasPrefix(R, Slash)
            /\ IF prefix = <<>>
                 THEN full = R
                 ELSE full = P \o Slash \o R /\ ~HasSuffix(P, Slash)

\* C12 as amended: fullKey cuts one leading slash of the relative key and
\* one trailing slash of the prefix; the result is as claimed when the key
\* has at most one leading slash and the prefix at most one trailing slash.
C12_FullKeyNormalizedOneSlash ==
    (Mapped /\ ~HasPrefix(rel, TwoSlashes) /\ ~HasSuffix(prefix, TwoSlashes)) =>
        LET P == TrimSuffix(prefix, Slash)
            R == TrimPrefix(rel, Slash)
        IN  /\ ~HasPrefix(R, Slash)
            /\ IF prefix = <<>>
                 THEN full = R
                 ELSE full = P \o Slash \o R /\ ~HasSuffix(P, Slash)

C12_Witness ==
    /\ Mapped
    /\ HasPrefix(rel, Slash) /\ ~HasPrefix(rel, TwoSlashes) /\ Len(rel) > 1
    /\ HasSuffix(prefix, Slash) /\ ~HasSuffix(prefix, TwoSlashes) /\ Len(prefix) > 1
    /\ Len(full) = Len(prefix) + Len(rel) - 1

\* C19: for every key the backend lists under the configured prefix, the key
\* that Delete sends for it, fullKey(relKey(f)), is that listed key.
C19_DeleteTargetsListed ==
    (from = "list" /\ kpc = "again") => again = full

OneRecordPerKey ==
    \A i, j \in 1..Len(Records(trace)) :
        i # j => Records(trace)[i].key # Records(trace)[j].key

SeenByUploadPhase(k) == k \in KeysOf(Calls(trace, "Stat"))

\* C14: a file that the upload phase saw and that another process removed
\* before the mirror phase checks its key, the destination listing the key,
\* is found absent: the mirror phase prints 'delete <key>' and, unless the
\* run is a dry run, calls Delete for it.
C14_DisappearedFileDeleted ==
    (check.key # "" /\ SeenByUploadPhase(check.key) /\ ~check.present) =>
        /\ check.res = "notexist"
        /\ check.record
        /\ check.called = ~dryRun
        /\ Event("delete", check.key, "") \in {trace[i] : i \in 1..Len(trace)}

C14_Witness ==
    /\ touched
    /\ check.key # "" /\ SeenByUploadPhase(check.key) /\ ~check.present
    /\ ~dryRun
    /\ check.called
    /\ ~objects[check.key].exists
    /\ start[check.key].exists

AfterCancel == {i \in 1..Len(trace) : i > cancelAt}
IsDstCall(e) == e.op \in {"Stat", "Put", "List", "Delete"}

\* The Destination honours ctx: every call made after the cancellation fails.
DstHonoursCancel ==
    \A i \in AfterCancel : IsDstCall(trace[i]) => trace[i].res = "err"

\* C15: once the caller has cancelled ctx, Sync begins no further file
\* operation: nothing follows in the run but a call of the Destination
\* that fails, and a run that went on after the cancellation ends with an
\* error.
C15_CancelStopsRun ==
    (cancelAt >= 0 /\ DstHonoursCancel) =>
        /\ \A i \in AfterCancel : IsDstCall(trace[i])
        /\ (pc = "done" /\ AfterCancel # {}) => err # ""

Before(i, op, k) == {j \in 1..(i - 1) : trace[j].op = op /\ trace[j].key = k}
WalkOps == {"Stat", "upload", "Open", "Put", "Close"}

\* C16: in a run every Put of a key comes after Stat of that key and then
\* the record 'upload <key>'; every Delete of a key comes after the record
\* 'delete <key>'; List comes after the upload phase has handled every file
\* of the walk, and nothing of the upload phase comes after List.
C16_Ordering ==
    \A i \in 1..Len(trace) :
        /\ trace[i].op = "Put" =>
              \E u \in Before(i, "upload", trace[i].key) :
                  \E st \in Before(u, "Stat", trace[i].key) : trace[st].res = "ok"
        /\ trace[i].op = "Delete" => Before(i, "delete", trace[i].key) # {}
        /\ trace[i].op = "List" =>
              /\ \A p \in Paths :
                    fs[p].kind \notin {"none", "dir"} => Before(i, "Stat", p) # {}
              /\ \A j \in (i + 1)..Len(trace) : trace[j].op \notin WalkOps

C16_Witness ==
    /\ pc = "done" /\ err = ""
    /\ Calls(trace, "Put") # <<>>
    /\ Calls(trace, "Delete") # <<>>

\* Source files open after the first n events of the run.
OpenFiles(n) ==
    Cardinality({j \in 1..n : trace[j].op = "Open" /\ trace[j].res = "ok"})
        - Cardinality({j \in 1..n : trace[j].op = "Close"})

\* C17: at most one source file is open at any point of a run; a file is
\* opened only right before its Put, after the record 'upload', never in a
\* dry run and never for a file that is up to date; it is closed right
\* after Put, whether Put succeeds or fails, so that no file is open when the
\* next file is handled or when the run ends.
C17_FileHandleDiscipline ==
    /\ \A n \in 0..Len(trace) : OpenFiles(n) \in {0, 1}
    /\ OpenFiles(Len(trace)) = 0
    /\ \A i \in 1..Len(trace) :
        /\ trace[i].op = "Open" =>
              /\ ~dryRun
              /\ i > 1 /\ trace[i - 1] = Event("upload", trace[i].key, "")
              /\ trace[i].res = "ok" =>
                    /\ i + 2 <= Len(trace)
                    /\ trace[i + 1].op = "Put" /\ trace[i + 1].key = trace[i].key
                    /\ trace[i + 2] = Event("Close", trace[i].key, "ok")
              /\ trace[i].res = "err" => i = Len(trace)
        /\ trace[i].op = "Put" => trace[i - 1] = Event("Open", trace[i].key, "ok")
        /\ trace[i].op \in {"Stat", "List", "LocalCheck"} => OpenFiles(i) = 0
    /\ (visit.statted /\ UpToDate(visit.meta, visit)) =>
          \A i \in 1..Len(trace) : trace[i].op = "Open" => trace[i].key # visit.path

C17_Witness ==
    /\ pc = "done" /\ err = "put"
    /\ Len(Calls(trace, "Open")) = 2
    /\ Len(Calls(trace, "Close")) = 2
    /\ Len(Calls(trace, "Stat")) = 2

\* Every local check of a key the Destination held succeeds or finds the
\* path absent.
NoLocalCheckError ==
    \A k \in Paths : start[k].exists => osStat(k) # "error"

\* C18: after a live Sync with Delete that succeeded, over a source nobody
\* changed, the Destination holds exactly the keys of the source's regular
\* files; no other key survives, not even one named like a local directory.
C18_MirrorPostcondition ==
    (/\ pc = "done" /\ err = "" /\ run > 0
     /\ ~dryRun /\ delete /\ ~touched
     /\ OnlyFilesAndDirs /\ NoLocalCheckError) =>
        {k \in Paths : objects[k].exists} = {p \in Paths : fs[p].kind = "file"}

====
